---- MODULE Spec2Model ----
(***************************************************************************)
(* Model of the AirControl acquisition engine (src/src/lib.rs): the        *)
(* controller object (running flag, worker handle, callback list, device   *)
(* mutex), the caller thread's API calls and the monitoring threads that   *)
(* start_monitoring spawns.                                                *)
(***************************************************************************)
EXTENDS Integers, Sequences, FiniteSets, TLC

\* ------------------------------------------------------------------ bounds
\* Number of threads start_monitoring may spawn in one behaviour.
MaxWorkers == 2
\* Largest number of registered callbacks.
MaxObservers == 2

\* ------------------------------------------------------- program constants
CO2_ADDRESS == 80
TEMPERATURE_ADDRESS == 66
HUMIDITY_ADDRESS == 65
\* Length of the report buffer, [0u8; 8].
BufLen == 8

Workers == 1..MaxWorkers
\* The callbacks handed to register_callback, named by the order in which they
\* are registered.
Observers == 1..MaxObservers
\* The instants Utc::now() may return.
Times == {0, 1}

\* Option<T>: None is the empty tuple, Some(x) the one-element tuple.
None == <<>>
Some(x) == <<x>>
IsNone(o) == o = <<>>
Unwrap(o) == o[1]

\* An 8-byte report; byte i of the code's buf is element i+1 here.
Report(tag, hi, lo, pad) == <<tag, hi, lo, pad, 0, 0, 0, 0>>

\* The reports the transport may deliver: two values of the gas tag (differing
\* in an unused byte as well), one of the temperature tag, one of the humidity
\* tag and one with the unknown tag 0x99. DecodeSpec below decodes every value.
Reports ==
    { Report(CO2_ADDRESS, 1, 44, 0),          \* 300 ppm
      Report(CO2_ADDRESS, 3, 32, 7),          \* 800 ppm
      Report(TEMPERATURE_ADDRESS, 19, 17, 0), \* raw 4881
      Report(HUMIDITY_ADDRESS, 19, 136, 0),   \* raw 5000
      Report(153, 0, 1, 0) }                  \* unknown tag 0x99

ZeroBuf == [i \in 1..BufLen |-> 0]

VARIABLES
    running,            \* AirControl.running (AtomicBool)
    monitoring_thread,  \* AirControl.monitoring_thread: 0 is None, else the worker
    callbacks,          \* AirControl.callbacks (the Vec inside the Mutex)
    cbLock,             \* holder of the callbacks Mutex: 0 free, else a worker
    deviceLock,         \* holder of the device Mutex: 0 free, else a worker
    callerPc,           \* caller thread: "idle" between calls, "join" inside stop
    joinTarget,         \* the handle stop_monitoring took and is joining
    spawned,            \* number of threads spawned so far
    pc,                 \* position of each monitoring thread
    buf,                \* read_data: buf
    co2,                \* read_data: co2
    temperature,        \* read_data: temperature (hundredths of a degree)
    humidity,           \* read_data: humidity (hundredths of a percent)
    result,             \* the value read_data returned to the worker loop
    idx,                \* position of `for cb in cbs.iter()`
    \* ---- history variables (observations, never read by the program)
    lastRaw,            \* per worker and tag: last report of that tag read this cycle
    overwritten,        \* per worker: this cycle read a tag again with another value
    timedOut,           \* per worker: the last pass of the assembly loop timed out
    invoked,            \* per worker: the callback invocations of the dispatch in progress
    cbAtLock,           \* per worker: the callback list when the dispatch took the lock
    afterStop,          \* per worker: dispatches completed after running was set false
    lateCycles,         \* per worker: cycles begun after running was set false
    misuse,             \* start_monitoring was called while a handle was held
    owed,               \* per list position: dispatches begun since its registration
                        \* minus invocations of it
    late,               \* per list position: registered while a thread was in the
                        \* pause that follows a completed dispatch
    quiet               \* stop_monitoring has returned and start_monitoring not called since

progVars == <<running, monitoring_thread, callbacks, cbLock, deviceLock, callerPc,
              joinTarget, spawned, pc, buf, co2, temperature, humidity,
              result, idx>>
histVars == <<lastRaw, overwritten, timedOut, invoked, cbAtLock, afterStop, lateCycles,
              misuse, owed, late, quiet>>
vars == <<progVars, histVars>>
workerLocals == <<buf, co2, temperature, humidity>>

KnownTags == {CO2_ADDRESS, TEMPERATURE_ADDRESS, HUMIDITY_ADDRESS}
NoRaw == [t \in KnownTags |-> None]
NoResult == [kind |-> "none", time |-> 0, co2 |-> 0, temperature |-> 0, humidity |-> 0]
ErrResult == [kind |-> "err", time |-> 0, co2 |-> 0, temperature |-> 0, humidity |-> 0]

\* ------------------------------------------------------------ report decoder
\* let key = buf[0];
Key(b) == b[1]

\* The shift done on the byte before it is widened: the high byte is lost.
Value_U8(b) == (((b[2] * 256) % 256) + b[3]) % 65536

\* let value = ((buf[1] as u16) << 8) | buf[2] as u16;   (u16 arithmetic)
Value(b) == (((b[2] * 256) % 65536) + b[3]) % 65536

\* floor(n/d + 1/2) for d > 0: the nearest integer, a tie going up.
RoundHalfUp(n, d) == (2 * n + d) \div (2 * d)

\* ceiling(n/d - 1/2) for d > 0: the nearest integer, a tie going down.
RoundHalfDown(n, d) == 0 - RoundHalfUp(0 - n, d)

\* Whether the f32 difference value/16 - 273.15 lies below the exact one.
\* value/16 is exact in f32 and the f32 constant 273.15 is
\* 273.149993896484375, a little below 273.15, so the exact f32 difference lies
\* a little above the real one; the subtraction then rounds it to 24 bits,
\* which for differences in [512, 2048) (value in 12563..37138) brings it
\* below the real one and elsewhere leaves it above.
F32Below(value) == value >= 12563 /\ value <= 37138

\* A conversion that cuts the digits after the second decimal.
ConvertTemperature_Truncated(value) == (value * 100 - 27315 * 16) \div 16

\* format!("{:.2}", value as f32 / 16.0 - 273.15).parse::<f32>(), in hundredths
\* of a degree: the hundredth nearest to value/16 - 273.15; when that lies
\* halfway between two hundredths, the f32 error decides (F32Below).
ConvertTemperature(value) ==
    IF F32Below(value)
    THEN RoundHalfDown(value * 100 - 27315 * 16, 16)
    ELSE RoundHalfUp(value * 100 - 27315 * 16, 16)

\* format!("{:.2}", value as f32 / 100.0).parse::<f32>(), in hundredths of a
\* percent.
ConvertHumidity(value) == RoundHalfUp(value * 100, 100)

\* ------------------------------------------------------------------- Init
\* The state AirControl::new() returns: running is created true, no thread.
Init ==
    /\ running = TRUE
    /\ monitoring_thread = 0
    /\ callbacks = <<>>
    /\ cbLock = 0
    /\ deviceLock = 0
    /\ callerPc = "idle"
    /\ joinTarget = 0
    /\ spawned = 0
    /\ pc = [w \in Workers |-> "unborn"]
    /\ buf = [w \in Workers |-> ZeroBuf]
    /\ co2 = [w \in Workers |-> None]
    /\ temperature = [w \in Workers |-> None]
    /\ humidity = [w \in Workers |-> None]
    /\ result = [w \in Workers |-> NoResult]
    /\ idx = [w \in Workers |-> 0]
    /\ lastRaw = [w \in Workers |-> NoRaw]
    /\ overwritten = [w \in Workers |-> FALSE]
    /\ timedOut = [w \in Workers |-> FALSE]
    /\ invoked = [w \in Workers |-> <<>>]
    /\ cbAtLock = [w \in Workers |-> <<>>]
    /\ afterStop = [w \in Workers |-> 0]
    /\ lateCycles = [w \in Workers |-> 0]
    /\ misuse = FALSE
    /\ owed = <<>>
    /\ late = <<>>
    /\ quiet = FALSE

\* A history counter that stops counting at 2.
Bump(n) == IF n < 2 THEN n + 1 ELSE n

\* ------------------------------------------------------------ caller thread
\* start_monitoring: clone the three Arcs, spawn the thread, store its handle
\* (an earlier handle still held is dropped, which detaches that thread).
StartMonitoring ==
    /\ callerPc = "idle"
    /\ spawned < MaxWorkers
    /\ spawned' = spawned + 1
    /\ pc' = [pc EXCEPT ![spawned + 1] = "check"]
    /\ monitoring_thread' = spawned + 1
    /\ misuse' = (misuse \/ monitoring_thread # 0)
    /\ quiet' = FALSE
    /\ UNCHANGED <<running, callbacks, cbLock, deviceLock, callerPc, joinTarget,
                   workerLocals, result, idx, lastRaw, overwritten, timedOut, invoked, cbAtLock,
                   afterStop,
                   lateCycles>>
    /\ UNCHANGED <<owed, late>>

\* A stop_monitoring that leaves the flag as it finds it.
StopStore_Forgotten == running

\* The flag stop_monitoring stores: running.store(false, SeqCst).
StopStore == FALSE

\* A stop_monitoring that locks the callback list before it joins and keeps
\* it locked while it waits.
StopBegin_HoldsList ==
    /\ callerPc = "idle"
    /\ cbLock = 0
    /\ cbLock' = IF monitoring_thread = 0 THEN 0 ELSE 0 - 1
    /\ running' = StopStore
    /\ IF monitoring_thread = 0
       THEN /\ quiet' = TRUE
            /\ UNCHANGED <<monitoring_thread, callerPc, joinTarget>>
       ELSE /\ joinTarget' = monitoring_thread
            /\ monitoring_thread' = 0
            /\ callerPc' = "join"
            /\ quiet' = quiet
    /\ UNCHANGED <<callbacks, deviceLock, spawned, pc, workerLocals,
                   result, idx, lastRaw, overwritten, timedOut, invoked, cbAtLock, afterStop, lateCycles,
                   misuse>>
    /\ UNCHANGED <<owed, late>>

\* stop_monitoring up to the join: store the flag, take() the handle; with no
\* handle the call returns at once.
StopBegin ==
    /\ callerPc = "idle"
    /\ running' = StopStore
    /\ IF monitoring_thread = 0
       THEN /\ quiet' = TRUE
            /\ UNCHANGED <<monitoring_thread, callerPc, joinTarget>>
       ELSE /\ joinTarget' = monitoring_thread
            /\ monitoring_thread' = 0
            /\ callerPc' = "join"
            /\ quiet' = quiet
    /\ UNCHANGED <<callbacks, cbLock, deviceLock, spawned, pc, workerLocals,
                   result, idx, lastRaw, overwritten, timedOut, invoked, cbAtLock, afterStop, lateCycles,
                   misuse>>
    /\ UNCHANGED <<owed, late>>

\* A join that returns without waiting for the thread.
Joined_AtOnce(w) == TRUE

\* Whether monitoring_thread.join() can return: the joined thread has finished.
Joined(w) == pc[w] = "done"

\* stop_monitoring's join returning, and with it the call.
StopJoin ==
    /\ callerPc = "join"
    /\ Joined(joinTarget)
    /\ callerPc' = "idle"
    /\ joinTarget' = 0
    /\ quiet' = TRUE
    /\ UNCHANGED <<running, monitoring_thread, callbacks, cbLock, deviceLock, spawned,
                   pc, workerLocals, result, idx, lastRaw, overwritten, timedOut, invoked, cbAtLock,
                   afterStop, lateCycles, misuse>>
    /\ UNCHANGED <<owed, late>>

\* cbs.push(callback)
Push(cbs, o) == Append(cbs, o)

\* A registration that does not wait for the lock of the list.
ListLockFree_Unlocked == TRUE

\* self.callbacks.lock() in register_callback returns: nobody holds the lock.
ListLockFree == cbLock = 0

\* register_callback: lock the list, push, unlock (waits while a dispatch
\* holds the lock). The Box is moved into the list, so each call brings a
\* callback that is not in the list yet.
RegisterCallback(o) ==
    /\ callerPc = "idle"
    /\ o = Len(callbacks) + 1
    /\ ListLockFree
    /\ Len(callbacks) < MaxObservers
    /\ callbacks' = Push(callbacks, o)
    /\ owed' = Append(owed, 0)
    /\ late' = Append(late, \E w \in Workers : pc[w] = "sleep")
    /\ UNCHANGED <<running, monitoring_thread, cbLock, deviceLock, callerPc, joinTarget,
                   spawned, pc, workerLocals, result, idx, lastRaw, overwritten,
                   timedOut, invoked, cbAtLock, afterStop, lateCycles, misuse, quiet>>

\* -------------------------------------------------------- monitoring thread
\* A loop that never looks at the flag.
LoopCondition_Always(flag) == TRUE

\* while running.load(Ordering::SeqCst)
LoopCondition(flag) == flag

\* The top of the worker loop: read the flag; enter the body or leave the loop
\* and finish the thread.
WorkerCheck(w) ==
    /\ pc[w] = "check"
    /\ IF LoopCondition(running)
       THEN /\ pc' = [pc EXCEPT ![w] = "lock"]
            /\ lateCycles' = [lateCycles EXCEPT ![w] = IF running THEN @ ELSE Bump(@)]
       ELSE /\ pc' = [pc EXCEPT ![w] = "done"]
            /\ UNCHANGED lateCycles
    /\ UNCHANGED <<running, monitoring_thread, callbacks, cbLock, deviceLock, callerPc,
                   joinTarget, spawned, workerLocals, result, idx, lastRaw, overwritten, timedOut, invoked,
                   cbAtLock, afterStop, misuse, quiet>>
    /\ UNCHANGED <<owed, late>>

\* A worker that reads the device without waiting for its lock.
DeviceLockFree_Unlocked == TRUE

\* device.lock() in the worker loop returns: nobody holds the lock.
DeviceLockFree == deviceLock = 0

\* let device = device.lock().unwrap(); and the entry of read_data: the buffer
\* zeroed, the three fields None.
WorkerLockDevice(w) ==
    /\ pc[w] = "lock"
    /\ DeviceLockFree
    /\ deviceLock' = w
    /\ pc' = [pc EXCEPT ![w] = "read"]
    /\ buf' = [buf EXCEPT ![w] = ZeroBuf]
    /\ co2' = [co2 EXCEPT ![w] = None]
    /\ temperature' = [temperature EXCEPT ![w] = None]
    /\ humidity' = [humidity EXCEPT ![w] = None]
    /\ result' = [result EXCEPT ![w] = NoResult]
    /\ lastRaw' = [lastRaw EXCEPT ![w] = NoRaw]
    /\ overwritten' = [overwritten EXCEPT ![w] = FALSE]
    /\ timedOut' = [timedOut EXCEPT ![w] = FALSE]
    /\ UNCHANGED <<running, monitoring_thread, callbacks, cbLock, callerPc, joinTarget,
                   spawned, idx, invoked, cbAtLock, afterStop, lateCycles,
                   misuse, quiet>>
    /\ UNCHANGED <<owed, late>>

\* while co2.is_none() || temperature.is_none() || humidity.is_none()
Incomplete(c, t, h) == IsNone(c) \/ IsNone(t) \/ IsNone(h)

\* A decoder whose default arm stores the value as the gas concentration.
Decode_DefaultArm(b, c, t, h) ==
    IF Key(b) = TEMPERATURE_ADDRESS THEN <<c, Some(ConvertTemperature(Value(b))), h>>
    ELSE IF Key(b) = HUMIDITY_ADDRESS THEN <<c, t, Some(ConvertHumidity(Value(b)))>>
    ELSE <<Some(Value(b)), t, h>>

\* A decoder that keeps the first value of a field and drops later ones.
Decode_FirstWins(b, c, t, h) ==
    IF Key(b) = CO2_ADDRESS THEN <<IF IsNone(c) THEN Some(Value(b)) ELSE c, t, h>>
    ELSE IF Key(b) = TEMPERATURE_ADDRESS
         THEN <<c, IF IsNone(t) THEN Some(ConvertTemperature(Value(b))) ELSE t, h>>
    ELSE IF Key(b) = HUMIDITY_ADDRESS
         THEN <<c, t, IF IsNone(h) THEN Some(ConvertHumidity(Value(b))) ELSE h>>
    ELSE <<c, t, h>>

\* The Ok arm of read_data: decode the buffer and assign the field its tag
\* names; <<co2, temperature, humidity>> afterwards.
Decode(b, c, t, h) ==
    IF Key(b) = CO2_ADDRESS THEN <<Some(Value(b)), t, h>>
    ELSE IF Key(b) = TEMPERATURE_ADDRESS THEN <<c, Some(ConvertTemperature(Value(b))), h>>
    ELSE IF Key(b) = HUMIDITY_ADDRESS THEN <<c, t, Some(ConvertHumidity(Value(b)))>>
    ELSE <<c, t, h>>

\* One pass of the assembly loop with read_timeout returning Ok: either a
\* report was copied into buf (Ok(8)), or the timeout expired and buf is as the
\* previous pass left it (Ok(0)); the Ok arm decodes buf in both cases.
WorkerReadOk(w, delivered, report) ==
    /\ pc[w] = "read"
    /\ Incomplete(co2[w], temperature[w], humidity[w])
    /\ LET b == IF delivered THEN report ELSE buf[w]
           f == Decode(b, co2[w], temperature[w], humidity[w])
       IN /\ buf' = [buf EXCEPT ![w] = b]
          /\ co2' = [co2 EXCEPT ![w] = f[1]]
          /\ temperature' = [temperature EXCEPT ![w] = f[2]]
          /\ humidity' = [humidity EXCEPT ![w] = f[3]]
          /\ lastRaw' = IF delivered /\ Key(report) \in KnownTags
                        THEN [lastRaw EXCEPT ![w][Key(report)] = Some(Value(report))]
                        ELSE lastRaw
          /\ overwritten' = IF /\ delivered
                               /\ Key(report) \in KnownTags
                               /\ ~IsNone(lastRaw[w][Key(report)])
                               /\ lastRaw[w][Key(report)] # Some(Value(report))
                            THEN [overwritten EXCEPT ![w] = TRUE]
                            ELSE overwritten
          /\ timedOut' = [timedOut EXCEPT ![w] = ~delivered]
    /\ UNCHANGED <<running, monitoring_thread, callbacks, cbLock, deviceLock, callerPc,
                   joinTarget, spawned, pc, result, idx, invoked, cbAtLock,
                   afterStop, lateCycles, misuse, quiet>>
    /\ UNCHANGED <<owed, late>>

\* read_data returning: its locals go out of scope.
DropLocals(w) ==
    /\ buf' = [buf EXCEPT ![w] = ZeroBuf]
    /\ co2' = [co2 EXCEPT ![w] = None]
    /\ temperature' = [temperature EXCEPT ![w] = None]
    /\ humidity' = [humidity EXCEPT ![w] = None]

\* One pass of the assembly loop with read_timeout returning Err: read_data
\* returns Err(..).
WorkerReadErr(w) ==
    /\ pc[w] = "read"
    /\ Incomplete(co2[w], temperature[w], humidity[w])
    /\ result' = [result EXCEPT ![w] = ErrResult]
    /\ pc' = [pc EXCEPT ![w] = "match"]
    /\ DropLocals(w)
    /\ overwritten' = [overwritten EXCEPT ![w] = FALSE]
    /\ timedOut' = [timedOut EXCEPT ![w] = FALSE]
    /\ UNCHANGED <<running, monitoring_thread, callbacks, cbLock, deviceLock, callerPc,
                   joinTarget, spawned, idx, lastRaw, invoked, cbAtLock, afterStop,
                   lateCycles, misuse, quiet>>
    /\ UNCHANGED <<owed, late>>

\* A worker whose device guard ends with the call of read_data.
WorkerReadDone_Releases(w, t) ==
    /\ pc[w] = "read"
    /\ ~Incomplete(co2[w], temperature[w], humidity[w])
    /\ result' = [result EXCEPT ![w] =
                    [kind |-> "ok", time |-> t, co2 |-> Unwrap(co2[w]),
                     temperature |-> Unwrap(temperature[w]),
                     humidity |-> Unwrap(humidity[w])]]
    /\ pc' = [pc EXCEPT ![w] = "match"]
    /\ DropLocals(w)
    /\ deviceLock' = 0
    /\ timedOut' = [timedOut EXCEPT ![w] = FALSE]
    /\ UNCHANGED <<running, monitoring_thread, callbacks, cbLock, callerPc,
                   joinTarget, spawned, idx, lastRaw, overwritten, invoked, cbAtLock,
                   afterStop, lateCycles, misuse, quiet>>
    /\ UNCHANGED <<owed, late>>

\* The assembly loop's condition false: read_data returns Ok(DeviceData) with
\* time = Utc::now().
WorkerReadDone(w, t) ==
    /\ pc[w] = "read"
    /\ ~Incomplete(co2[w], temperature[w], humidity[w])
    /\ result' = [result EXCEPT ![w] =
                    [kind |-> "ok", time |-> t, co2 |-> Unwrap(co2[w]),
                     temperature |-> Unwrap(temperature[w]),
                     humidity |-> Unwrap(humidity[w])]]
    /\ pc' = [pc EXCEPT ![w] = "match"]
    /\ DropLocals(w)
    /\ timedOut' = [timedOut EXCEPT ![w] = FALSE]
    /\ UNCHANGED <<running, monitoring_thread, callbacks, cbLock, deviceLock, callerPc,
                   joinTarget, spawned, idx, lastRaw, overwritten, invoked, cbAtLock,
                   afterStop, lateCycles, misuse, quiet>>
    /\ UNCHANGED <<owed, late>>

\* match ... Ok(data): let cbs = callbacks.lock().unwrap();
WorkerMatchOk(w) ==
    /\ pc[w] = "match"
    /\ result[w].kind = "ok"
    /\ cbLock = 0
    /\ cbLock' = w
    /\ idx' = [idx EXCEPT ![w] = 1]
    /\ pc' = [pc EXCEPT ![w] = "dispatch"]
    /\ invoked' = [invoked EXCEPT ![w] = <<>>]
    /\ cbAtLock' = [cbAtLock EXCEPT ![w] = callbacks]
    /\ UNCHANGED <<running, monitoring_thread, callbacks, deviceLock, callerPc, joinTarget,
                   spawned, workerLocals, result, lastRaw, overwritten, timedOut, afterStop, lateCycles,
                   misuse, quiet>>
    /\ owed' = [k \in 1..Len(owed) |-> owed[k] + 1]
    /\ UNCHANGED late

\* An Err arm that goes on with the next cycle instead of leaving the loop.
WorkerMatchErr_Retry(w) ==
    /\ pc[w] = "match"
    /\ result[w].kind = "err"
    /\ deviceLock' = 0
    /\ pc' = [pc EXCEPT ![w] = "check"]
    /\ result' = [result EXCEPT ![w] = NoResult]
    /\ lastRaw' = [lastRaw EXCEPT ![w] = NoRaw]
    /\ UNCHANGED <<running, monitoring_thread, callbacks, cbLock, callerPc, joinTarget,
                   spawned, workerLocals, idx, overwritten, timedOut, invoked, cbAtLock,
                   afterStop, lateCycles, misuse, quiet>>
    /\ UNCHANGED <<owed, late>>

\* match ... Err(error): eprintln!, break; leaving the loop body drops the
\* device guard and the thread finishes.
WorkerMatchErr(w) ==
    /\ pc[w] = "match"
    /\ result[w].kind = "err"
    /\ deviceLock' = 0
    /\ pc' = [pc EXCEPT ![w] = "done"]
    /\ result' = [result EXCEPT ![w] = NoResult]
    /\ lastRaw' = [lastRaw EXCEPT ![w] = NoRaw]
    /\ UNCHANGED <<running, monitoring_thread, callbacks, cbLock, callerPc, joinTarget,
                   spawned, workerLocals, idx, overwritten, timedOut, invoked, cbAtLock,
                   afterStop, lateCycles, misuse, quiet>>
    /\ UNCHANGED <<owed, late>>

\* An iteration that leaves out the newest element of a list of several.
IterEnd_SkipLast(cbs) == IF Len(cbs) > 1 THEN Len(cbs) - 1 ELSE Len(cbs)

\* The number of elements cbs.iter() yields.
IterEnd(cbs) == Len(cbs)

\* An iteration that walks the list from its end.
CallbackAt_Reversed(cbs, i) == cbs[Len(cbs) + 1 - i]

\* The i-th element cbs.iter() yields.
CallbackAt(cbs, i) == cbs[i]

\* One iteration of `for cb in cbs.iter()`:
\* cb(data.time, data.co2, data.temperature, data.humidity)
WorkerInvoke(w) ==
    /\ pc[w] = "dispatch"
    /\ idx[w] <= IterEnd(callbacks)
    /\ invoked' = [invoked EXCEPT ![w] =
                     Append(@, [obs |-> CallbackAt(callbacks, idx[w]),
                                time |-> result[w].time, co2 |-> result[w].co2,
                                temperature |-> result[w].temperature,
                                humidity |-> result[w].humidity])]
    /\ idx' = [idx EXCEPT ![w] = @ + 1]
    /\ UNCHANGED <<running, monitoring_thread, callbacks, cbLock, deviceLock, callerPc,
                   joinTarget, spawned, pc, workerLocals, result, lastRaw, overwritten, timedOut, cbAtLock,
                   afterStop, lateCycles, misuse, quiet>>
    /\ owed' = [owed EXCEPT ![idx[w]] = @ - 1]
    /\ UNCHANGED late

\* The end of the for loop and of the Ok arm: the cbs guard is dropped.
WorkerDispatchEnd(w) ==
    /\ pc[w] = "dispatch"
    /\ idx[w] > IterEnd(callbacks)
    /\ cbLock' = 0
    /\ pc' = [pc EXCEPT ![w] = "sleep"]
    /\ invoked' = [invoked EXCEPT ![w] = <<>>]
    /\ cbAtLock' = [cbAtLock EXCEPT ![w] = <<>>]
    /\ afterStop' = [afterStop EXCEPT ![w] = IF running THEN @ ELSE Bump(@)]
    /\ result' = [result EXCEPT ![w] = NoResult]
    /\ idx' = [idx EXCEPT ![w] = 0]
    /\ lastRaw' = [lastRaw EXCEPT ![w] = NoRaw]
    /\ overwritten' = [overwritten EXCEPT ![w] = FALSE]
    /\ UNCHANGED <<running, monitoring_thread, callbacks, deviceLock, callerPc, joinTarget,
                   spawned, workerLocals, timedOut, lateCycles, misuse, quiet>>
    /\ UNCHANGED <<owed, late>>

\* thread::sleep(100 ms), then the end of the loop body, where the device
\* guard is dropped; the thread is back at the top of the loop.
WorkerSleep(w) ==
    /\ pc[w] = "sleep"
    /\ deviceLock' = 0
    /\ pc' = [pc EXCEPT ![w] = "check"]
    /\ UNCHANGED <<running, monitoring_thread, callbacks, cbLock, callerPc, joinTarget,
                   spawned, workerLocals, result, idx, histVars>>

\* Any step of monitoring thread w.
WorkerStep(w) ==
    \/ WorkerCheck(w)
    \/ WorkerLockDevice(w)
    \/ \E r \in Reports : WorkerReadOk(w, TRUE, r)
    \/ WorkerReadOk(w, FALSE, ZeroBuf)
    \/ WorkerReadErr(w)
    \/ \E t \in Times : WorkerReadDone(w, t)
    \/ WorkerMatchOk(w)
    \/ WorkerMatchErr(w)
    \/ WorkerInvoke(w)
    \/ WorkerDispatchEnd(w)
    \/ WorkerSleep(w)

Next ==
    \/ StartMonitoring
    \/ StopBegin
    \/ StopJoin
    \/ \E o \in Observers : RegisterCallback(o)
    \/ \E w \in Workers : WorkerStep(w)

Spec == Init /\ [][Next]_vars

\* The scheduler runs every thread that can take a step, and a join whose
\* thread has finished returns.
FairSpec == Spec /\ WF_vars(StopJoin) /\ \A w \in Workers : WF_vars(WorkerStep(w))

\* ------------------------------------------------------------------ claims
\* A thread that was spawned and has not finished.
Active(w) == pc[w] \notin {"unborn", "done"}

\* The value of a field decoded from the raw value of the last report of tag t.
Decoded(t, raw) ==
    IF t = CO2_ADDRESS THEN raw
    ELSE IF t = TEMPERATURE_ADDRESS THEN ConvertTemperature(raw)
    ELSE ConvertHumidity(raw)

\* C1: a start_monitoring issued after a completed stop_monitoring (a thread
\* was spawned before, no handle is held, start_monitoring was never called
\* with a handle held) begins the new worker lifetime with the running flag
\* true, so that the new worker performs assembly cycles.
C1_RestartRunsWorker ==
    [][(spawned >= 1 /\ spawned' = spawned + 1 /\ monitoring_thread = 0 /\ ~misuse)
         => running']_vars

\* C2 as stated: in every reachable state at most one monitoring thread is
\* active, whatever the sequence of calls.
C2_AtMostOneWorker == Cardinality({w \in Workers : Active(w)}) <= 1

\* C2 amended: as long as start_monitoring has only been called with no handle
\* held, at most one monitoring thread is active.
C2_AtMostOneWorkerFromIdle ==
    ~misuse => Cardinality({w \in Workers : Active(w)}) <= 1

\* C2 witness: a second worker lifetime, started from idle, is active.
C2_Witness == ~misuse /\ spawned >= 2 /\ Active(2) /\ ~Active(1)

\* C3 as stated: once stop_monitoring has returned and until the next
\* start_monitoring, no thread is reading the transport or invoking callbacks.
C3_NoActivityAfterStop ==
    quiet => \A w \in Workers : pc[w] \notin {"read", "dispatch"}

\* C3 amended: as long as start_monitoring has only been called with no handle
\* held, once stop_monitoring has returned and until the next
\* start_monitoring every spawned thread has finished, so none reads the
\* transport or invokes a callback.
C3_NoActivityAfterStopFromIdle ==
    (quiet /\ ~misuse) => \A w \in Workers : ~Active(w)

\* C3 witness: stop_monitoring has returned from joining a worker that was in
\* a cycle when the flag was cleared.
C3_Witness == quiet /\ ~misuse /\ spawned >= 1 /\ afterStop[1] = 1

\* C4: after running has been set false a worker completes at most one more
\* dispatch (the cycle in flight) and passes the loop-top check no more.
C4_AtMostOneMoreCycle ==
    \A w \in Workers : afterStop[w] <= 1 /\ lateCycles[w] = 0

\* C4 witness: a worker finished the cycle in flight after the flag was
\* cleared, dispatched it, and then left the loop.
C4_Witness == \E w \in Workers : afterStop[w] = 1 /\ pc[w] = "done" /\ ~running

\* Some thread is inside the assembly loop of read_data.
Assembling == \E w \in Workers : pc[w] = "read"

\* C5 as stated: every stop_monitoring that waits in join eventually returns,
\* whatever the transport delivers (here for a controller on which
\* start_monitoring was only ever called with no handle held).
C5_StopReturns == (callerPc = "join" /\ ~misuse) ~> (callerPc = "idle")

\* C5 amended: every stop_monitoring that waits in join eventually returns,
\* unless an assembly cycle never completes (from some point on a thread is
\* inside the assembly loop forever, fed timeouts, unknown tags or repeats).
C5_StopReturnsUnlessAssemblyStalls ==
    (callerPc = "join") ~> (callerPc = "idle" \/ []Assembling)

\* C5 witness: a stop_monitoring that had to join a thread has returned, the
\* thread having ended on a read error or at the loop-top check.
C5_Witness ==
    /\ callerPc = "idle" /\ quiet /\ ~running
    /\ spawned >= 1
    /\ \A w \in 1..spawned : pc[w] = "done"

\* C6: stop_monitoring called with no handle held leaves the running flag,
\* the handle and the callback list as they were.
C6_StopWhenIdleIsNoOp ==
    [][(StopBegin /\ monitoring_thread = 0)
         => UNCHANGED <<running, monitoring_thread, callbacks>>]_vars

\* C7: between API calls the controller is Idle (no handle, running false) or
\* Running (a handle, running true).
C7_IdleOrRunning ==
    callerPc = "idle" =>
        \/ monitoring_thread = 0 /\ ~running
        \/ monitoring_thread # 0 /\ running

\* C8: a snapshot exists, and callbacks are invoked, only when the cycle has
\* read a report of each of the three tags; inside a cycle a field has a
\* value only if a report of its tag was read in this cycle.
C8_DispatchOnlyComplete ==
    \A w \in Workers :
        /\ (result[w].kind = "ok" \/ pc[w] = "dispatch") =>
               \A t \in KnownTags : ~IsNone(lastRaw[w][t])
        /\ ~IsNone(co2[w]) => ~IsNone(lastRaw[w][CO2_ADDRESS])
        /\ ~IsNone(temperature[w]) => ~IsNone(lastRaw[w][TEMPERATURE_ADDRESS])
        /\ ~IsNone(humidity[w]) => ~IsNone(lastRaw[w][HUMIDITY_ADDRESS])
        /\ Len(invoked[w]) > 0 => result[w].kind = "ok"

\* C8 witness: a callback has been invoked with the snapshot of a complete
\* cycle.
C8_Witness ==
    \E w \in Workers : pc[w] = "dispatch" /\ Len(invoked[w]) > 0

\* C9: each field of the snapshot is the decoded value of the last report of
\* its tag read in the cycle.
C9_LastReportWins ==
    \A w \in Workers :
        /\ result[w].kind = "ok" =>
            /\ result[w].co2 = Decoded(CO2_ADDRESS, Unwrap(lastRaw[w][CO2_ADDRESS]))
            /\ result[w].temperature =
                   Decoded(TEMPERATURE_ADDRESS, Unwrap(lastRaw[w][TEMPERATURE_ADDRESS]))
            /\ result[w].humidity =
                   Decoded(HUMIDITY_ADDRESS, Unwrap(lastRaw[w][HUMIDITY_ADDRESS]))
        /\ ~IsNone(co2[w]) =>
               co2[w] = Some(Decoded(CO2_ADDRESS, Unwrap(lastRaw[w][CO2_ADDRESS])))
        /\ ~IsNone(temperature[w]) =>
               temperature[w] = Some(Decoded(TEMPERATURE_ADDRESS,
                                             Unwrap(lastRaw[w][TEMPERATURE_ADDRESS])))
        /\ ~IsNone(humidity[w]) =>
               humidity[w] = Some(Decoded(HUMIDITY_ADDRESS,
                                          Unwrap(lastRaw[w][HUMIDITY_ADDRESS])))

\* C9 witness: a snapshot of a cycle in which a tag was read twice with
\* different values.
C9_Witness == \E w \in Workers : result[w].kind = "ok" /\ overwritten[w]

\* C10: during a dispatch the callbacks invoked so far are, in order, the
\* first ones of the list as it was when the dispatch took the lock, each once
\* and each with the four fields of the snapshot; the dispatch ends when all of
\* them have been invoked.
C10_DispatchInOrder ==
    \A w \in Workers : pc[w] = "dispatch" =>
        /\ idx[w] \in 1..(Len(cbAtLock[w]) + 1)
        /\ Len(invoked[w]) = idx[w] - 1
        /\ \A i \in 1..Len(invoked[w]) :
              /\ invoked[w][i].obs = cbAtLock[w][i]
              /\ invoked[w][i].time = result[w].time
              /\ invoked[w][i].co2 = result[w].co2
              /\ invoked[w][i].temperature = result[w].temperature
              /\ invoked[w][i].humidity = result[w].humidity

\* C10 witness: a dispatch has invoked two different callbacks, the whole list.
C10_Witness ==
    \E w \in Workers :
        /\ pc[w] = "dispatch"
        /\ idx[w] > Len(cbAtLock[w])
        /\ Len(invoked[w]) >= 2
        /\ invoked[w][1].obs # invoked[w][2].obs

\* The three in-progress fields of read_data in thread w.
Fields(w) == <<co2[w], temperature[w], humidity[w]>>

\* C12: a read error ends the cycle with an error and no snapshot, the fields
\* collected so far dropped; the thread's next step ends it, a finished thread
\* stays finished, and none of these steps touches the running flag, the
\* handle or invokes a callback.
C12_ErrorEndsWorker ==
    [][\A w \in Workers :
         /\ (result[w].kind # "err" /\ result'[w].kind = "err") =>
                /\ Fields(w)' = <<None, None, None>>
                /\ pc'[w] = "match"
                /\ UNCHANGED <<running, monitoring_thread, invoked>>
         /\ (result[w].kind = "err" /\ pc'[w] # pc[w]) =>
                /\ pc'[w] = "done"
                /\ result'[w].kind = "none"
                /\ UNCHANGED <<running, monitoring_thread, invoked, cbLock>>
         /\ pc[w] = "done" => (pc'[w] = "done" /\ invoked'[w] = invoked[w])]_vars

\* C12 witness: read_data has returned an error after a gas report had been
\* read in the cycle.
C12_Witness ==
    \E w \in Workers :
        /\ pc[w] = "match" /\ result[w].kind = "err"
        /\ ~IsNone(lastRaw[w][CO2_ADDRESS])

\* C13: a pass of the assembly loop that times out changes none of the three
\* fields, returns nothing (no error, no snapshot) and leaves the thread in the
\* assembly loop, still incomplete.
C13_TimeoutChangesNothing ==
    [][\A w \in Workers :
         WorkerReadOk(w, FALSE, ZeroBuf) =>
             /\ Fields(w)' = Fields(w)
             /\ pc'[w] = "read"
             /\ result'[w].kind = "none"
             /\ Incomplete(co2'[w], temperature'[w], humidity'[w])]_vars

\* C13 witness: the last pass timed out in a cycle that holds a gas value and
\* no humidity yet.
C13_Witness ==
    \E w \in Workers :
        /\ pc[w] = "read" /\ timedOut[w]
        /\ ~IsNone(co2[w]) /\ IsNone(humidity[w])

\* C14: a report whose tag is none of the three known ones changes none of the
\* three fields, returns nothing and leaves the thread in the assembly loop.
C14_UnknownTagIgnored ==
    [][\A w \in Workers : \A r \in Reports :
         (WorkerReadOk(w, TRUE, r) /\ Key(r) \notin KnownTags) =>
             /\ Fields(w)' = Fields(w)
             /\ pc'[w] = "read"
             /\ result'[w].kind = "none"
             /\ Incomplete(co2'[w], temperature'[w], humidity'[w])]_vars

\* C14 witness: the report read last carries the tag 0x99, in a cycle that
\* holds a temperature and no humidity yet.
C14_Witness ==
    \E w \in Workers :
        /\ pc[w] = "read" /\ ~timedOut[w]
        /\ Key(buf[w]) \notin KnownTags /\ Key(buf[w]) # 0
        /\ ~IsNone(temperature[w]) /\ IsNone(humidity[w])

\* C15: while a dispatch runs it holds the lock of the list, the list is the
\* one it found when it took the lock (no registration lands inside it), and
\* when its loop ends it has invoked exactly that list.
C15_RegisterExcludesDispatch ==
    \A w \in Workers : pc[w] = "dispatch" =>
        /\ cbLock = w
        /\ callbacks = cbAtLock[w]
        /\ Len(invoked[w]) <= Len(cbAtLock[w])
        /\ idx[w] > Len(callbacks) =>
               [i \in 1..Len(invoked[w]) |-> invoked[w][i].obs] = cbAtLock[w]

\* C15 witness: a dispatch is between two callbacks while the caller is free
\* to call register_callback.
C15_Witness ==
    \E w \in Workers :
        /\ pc[w] = "dispatch" /\ callerPc = "idle"
        /\ idx[w] > 1 /\ idx[w] <= Len(callbacks)

\* C16: at most one thread is inside read_data, and that thread holds the
\* lock of the device.
C16_OneReaderUnderLock ==
    /\ Cardinality({w \in Workers : pc[w] = "read"}) <= 1
    /\ \A w \in Workers : pc[w] = "read" => deviceLock = w

\* C16 witness: one thread is inside read_data while another waits for the
\* lock of the device.
C16_Witness ==
    \E v, w \in Workers : pc[v] = "read" /\ pc[w] = "lock"

\* C19 as stated: the lock of the device is not held while callbacks are
\* dispatched nor during the pause between cycles.
C19_LockOnlyDuringAssembly ==
    \A w \in Workers : pc[w] \in {"dispatch", "sleep"} => deviceLock # w

\* C19 amended: a thread holds the lock of the device from before the first
\* read of a cycle to the end of that iteration of the loop: during the
\* assembly, the match on its result, the dispatch and the pause, and at no
\* other time.
C19_LockHeldThroughIteration ==
    \A w \in Workers :
        deviceLock = w <=> pc[w] \in {"read", "match", "dispatch", "sleep"}

\* C19 witness: a thread is in the pause after a dispatch and holds the lock.
C19_Witness == \E w \in Workers : pc[w] = "sleep" /\ deviceLock = w

\* Thread w can take a step.
CanRun(w) == ENABLED WorkerStep(w)

\* Thread w can take a step, or waits for a lock whose holder can.
Progress(w) ==
    \/ CanRun(w)
    \/ pc[w] = "lock" /\ deviceLock \in Workers /\ CanRun(deviceLock)
    \/ pc[w] = "match" /\ cbLock \in Workers /\ CanRun(cbLock)

\* C20: no thread waits for something that cannot be released: every
\* unfinished monitoring thread can step or waits for a lock whose holder can
\* step, a held callback lock (for which register_callback may be waiting) has
\* a holder that can step, and the thread a join waits for has finished or can
\* make progress.
C20_NoDeadlock ==
    /\ \A w \in Workers : Active(w) => Progress(w)
    /\ cbLock # 0 => (cbLock \in Workers /\ CanRun(cbLock))
    /\ callerPc = "join" => (Joined(joinTarget) \/ Progress(joinTarget))

\* C20 witness: the caller waits in join for a thread that holds both locks.
C20_Witness ==
    /\ callerPc = "join"
    /\ pc[joinTarget] = "dispatch"
    /\ deviceLock = joinTarget /\ cbLock = joinTarget

\* ------------------------------------------------- the decoder on all reports
\* A byte of the report buffer (u8).
Bytes == 0..255
\* The tags of the reports decoded below: the three known ones and 0x99.
DecodeTags == KnownTags \cup {153}
\* Values of the unused byte buf[3].
Pads == {0, 7}

\* The state in which the first thread has taken the device lock and entered
\* read_data: new(), start_monitoring(), the loop condition, device.lock().
InitDecode ==
    /\ running = TRUE
    /\ monitoring_thread = 1
    /\ callbacks = <<>>
    /\ cbLock = 0
    /\ deviceLock = 1
    /\ callerPc = "idle"
    /\ joinTarget = 0
    /\ spawned = 1
    /\ pc = [w \in Workers |-> IF w = 1 THEN "read" ELSE "unborn"]
    /\ buf = [w \in Workers |-> ZeroBuf]
    /\ co2 = [w \in Workers |-> None]
    /\ temperature = [w \in Workers |-> None]
    /\ humidity = [w \in Workers |-> None]
    /\ result = [w \in Workers |-> NoResult]
    /\ idx = [w \in Workers |-> 0]
    /\ lastRaw = [w \in Workers |-> NoRaw]
    /\ overwritten = [w \in Workers |-> FALSE]
    /\ timedOut = [w \in Workers |-> FALSE]
    /\ invoked = [w \in Workers |-> <<>>]
    /\ cbAtLock = [w \in Workers |-> <<>>]
    /\ afterStop = [w \in Workers |-> 0]
    /\ lateCycles = [w \in Workers |-> 0]
    /\ misuse = FALSE
    /\ owed = <<>>
    /\ late = <<>>
    /\ quiet = FALSE

\* The first pass of the assembly loop, the transport delivering `report`.
DecodeFirstReport(report) == WorkerReadOk(1, TRUE, report)

\* Only the first pass is taken: nothing has been read into buf yet.
NextDecode ==
    /\ buf[1] = ZeroBuf
    /\ Fields(1) = <<None, None, None>>
    /\ \E tag \in DecodeTags, hi \in Bytes, lo \in Bytes, pad \in Pads :
           DecodeFirstReport(Report(tag, hi, lo, pad))

DecodeSpec == InitDecode /\ [][NextDecode]_vars

\* The state DecodeSpec starts in (reached by Spec).
DecodeStartReached == InitDecode

\* The first thread has just decoded a report with the temperature tag.
TemperatureRead ==
    pc[1] = "read" /\ Key(buf[1]) = TEMPERATURE_ADDRESS /\ ~IsNone(temperature[1])

\* t hundredths is a hundredth nearest to value/16 - 273.15 (either one when
\* that lies halfway between two).
NearestHundredth(t, value) ==
    /\ 16 * t - (100 * value - 27315 * 16) <= 8
    /\ (100 * value - 27315 * 16) - 16 * t <= 8

\* C17 as stated: the decoded temperature is value/16 - 273.15 rounded to two
\* decimal places, and for value = 4881 it is 31.89.
C17_Temperature4881Is3189 ==
    TemperatureRead =>
        /\ NearestHundredth(Unwrap(temperature[1]), Value(buf[1]))
        /\ Value(buf[1]) = 4881 => Unwrap(temperature[1]) = 3189

\* C17 amended: the decoded temperature is value/16 - 273.15 rounded to two
\* decimal places, and for value = 4881 it is 31.91.
C17_Temperature4881Is3191 ==
    TemperatureRead =>
        /\ NearestHundredth(Unwrap(temperature[1]), Value(buf[1]))
        /\ Value(buf[1]) = 4881 => Unwrap(temperature[1]) = 3191

\* C17 witness: the report 0x42 0x13 0x11 (value 4881) has been decoded.
C17_Witness == TemperatureRead /\ buf[1][2] = 19 /\ buf[1][3] = 17

\* The first thread has just decoded a report with the gas tag.
Co2Read == pc[1] = "read" /\ Key(buf[1]) = CO2_ADDRESS

\* C18: the decoded gas concentration of a report with tag 0x50 is
\* byte[1]*256 + byte[2], a value in 0..65535, whatever the other bytes are;
\* bytes 0x50 0x01 0x2C decode to 300.
C18_Co2IsBigEndianValue ==
    Co2Read =>
        /\ co2[1] = Some(buf[1][2] * 256 + buf[1][3])
        /\ Unwrap(co2[1]) \in 0..65535
        /\ (buf[1][2] = 1 /\ buf[1][3] = 44) => co2[1] = Some(300)
        /\ temperature[1] = None /\ humidity[1] = None

\* C18 witness: the report 0x50 0x01 0x2C with a non-zero byte 3 was decoded
\* to 300.
C18_Witness ==
    Co2Read /\ buf[1] = Report(CO2_ADDRESS, 1, 44, 7) /\ co2[1] = Some(300)

\* C11: register_callback can be called in every state of the controller in
\* which the caller is between calls (it only waits for the lock of the
\* list), and a registered callback is invoked once in every dispatch that
\* begins after its registration and in no other: at every list position the
\* count of dispatches begun since its registration less the invocations of
\* it is 1 while a dispatch that has not yet reached it is in progress and 0
\* otherwise.
C11_LateObserverServed ==
    /\ Len(owed) = Len(callbacks)
    /\ \A k \in 1..Len(owed) :
           owed[k] = IF \E w \in Workers : pc[w] = "dispatch" /\ idx[w] <= k
                     THEN 1 ELSE 0
    /\ (callerPc = "idle" /\ cbLock = 0 /\ Len(callbacks) < MaxObservers) =>
           ENABLED RegisterCallback(Len(callbacks) + 1)

\* C11 witness: a callback registered after a completed dispatch, while the
\* worker was running, has been invoked in a later dispatch.
C11_Witness ==
    \E w \in Workers : \E k \in 1..Len(late) :
        /\ late[k]
        /\ pc[w] = "dispatch" /\ idx[w] > k
        /\ Len(invoked[w]) >= k /\ invoked[w][k].obs = callbacks[k]

====
